---- MODULE Spec2Model ----
(***************************************************************************)
(* Session / token lifecycle of the admin client: the token store          *)
(* (lib/auth.ts), the single-flight refresh (lib/queryClient.ts), the HTTP *)
(* transport and its auth-error signal (lib/api.ts), the session           *)
(* controller (contexts/AuthContext.tsx) and the token debug panel         *)
(* (pages/UserPage.tsx).                                                   *)
(*                                                                         *)
(* JavaScript runs one task at a time: an action below is one task, i.e.   *)
(* the synchronous code of a call up to its first network await, or the    *)
(* arrival of one network response together with every continuation and    *)
(* promise reaction (microtask) it unblocks.                               *)
(***************************************************************************)
EXTENDS Integers, Sequences, FiniteSets, TLC

\* ------------------------------------------------------------------ bounds
MaxTick == 1

MaxOps == 3

\* The pages a paginated fetch asks for are 1..MaxPage.
MaxPage == 3

\* --------------------------------------------------------------- constants
TOKEN_REFRESH_THRESHOLD_MS == 60000

EXPIRED_GRACE_PERIOD_MS == 5000

\* The clock advances in steps of half the refresh window, so that an expiry
\* can lie beyond the window, exactly on its edge, inside it, at now and before.
TimeStep == TOKEN_REFRESH_THRESHOLD_MS \div 2

Times == { k * TimeStep : k \in 0..MaxTick }

\* ------------------------------------------------------------ localStorage
\* localStorage.getItem gives null for a key that is not there.
NoItem == "<absent>"

\* An expiry item is a string: absent, an ISO-8601 text, or any other text.
NoExpiry == [k |-> "absent", t |-> 0]

BadExpiry == [k |-> "text", t |-> 0]

Iso(t) == [k |-> "iso", t |-> t]

EmptyStore ==
  [access_token |-> NoItem, refresh_token |-> NoItem, expires_at |-> NoExpiry,
   refresh_expires_at |-> NoExpiry, user_id |-> NoItem]

\* The token pair the backend hands out at time t: an access token that lives
\* three steps (one step later it is inside the refresh window), a refresh
\* token that lives four steps.
AccessLife == 3 * TimeStep

RefreshLife == 4 * TimeStep

TokenPairs(t) ==
  { [user_id |-> 7, access_token |-> "tokB", refresh_token |-> "rtB",
     expires_at |-> Iso(t + AccessLife), refresh_expires_at |-> Iso(t + RefreshLife)] }

SwitchResponses(t) ==
  { [access_token |-> "tokH", expires_at |-> Iso(t + AccessLife)] }

Full(at, e, re) ==
  [access_token |-> at, refresh_token |-> "rtA", expires_at |-> e,
   refresh_expires_at |-> re, user_id |-> "7"]

\* What the browser may hold when the page loads.
InitStores ==
  { EmptyStore,
    Full("tokA", Iso(3 * TimeStep), Iso(RefreshLife)),
    Full("tokA", Iso(0), Iso(RefreshLife)),
    Full("tokA", Iso(3 * TimeStep), Iso(0)),
    Full("tokA", BadExpiry, BadExpiry),
    Full("tokA", NoExpiry, Iso(RefreshLife)),
    Full("undefined", Iso(3 * TimeStep), Iso(RefreshLife)) }

\* ------------------------------------------------------------- token store
storeTokensAccessOnly(response) ==
  [EmptyStore EXCEPT !.access_token = response.access_token,
                     !.expires_at = response.expires_at]

\* user_id is a number in the response and is stored as its decimal text.
storeTokens(response) ==
  [access_token |-> response.access_token,
   refresh_token |-> response.refresh_token,
   expires_at |-> response.expires_at,
   refresh_expires_at |-> response.refresh_expires_at,
   user_id |-> ToString(response.user_id)]

clearTokens == EmptyStore

\* JavaScript's !token: null and the empty string are falsy.
Falsy(item) == item = NoItem \/ item = ""

NoToken == "<null>"

getAccessToken(st) ==
  IF Falsy(st.access_token) \/ st.access_token = "undefined" \/ st.access_token = "null"
  THEN NoToken ELSE st.access_token

getRefreshToken(st) ==
  IF Falsy(st.refresh_token) \/ st.refresh_token = "undefined" \/ st.refresh_token = "null"
  THEN NoToken ELSE st.refresh_token

\* A Date value: null (no Date), an Invalid Date (time value NaN), or a time.
NullDate == [k |-> "null", t |-> 0]

InvalidDate == [k |-> "invalid", t |-> 0]

\* new Date(text) never throws: a text that is no date gives an Invalid Date.
NewDate(item) == IF item.k = "iso" THEN [k |-> "date", t |-> item.t] ELSE InvalidDate

getExpiresAt(st) ==
  IF st.expires_at.k = "absent" THEN NullDate ELSE NewDate(st.expires_at)

getRefreshExpiresAt(st) ==
  IF st.refresh_expires_at.k = "absent" THEN NullDate ELSE NewDate(st.refresh_expires_at)

\* new Date() >= d: every comparison with NaN is false.
NowGE(t, d) == d.k = "date" /\ t >= d.t

isTokenExpired(st, t) ==
  LET expiresAt == getExpiresAt(st)
  IN  IF expiresAt.k = "null" THEN TRUE ELSE NowGE(t, expiresAt)

shouldRefreshToken(st, t) ==
  LET expiresAt == getExpiresAt(st)
  IN  IF expiresAt.k = "null" THEN FALSE
      ELSE expiresAt.k = "date" /\ expiresAt.t - t <= TOKEN_REFRESH_THRESHOLD_MS

isRefreshTokenExpired(st, t) ==
  LET expiresAt == getRefreshExpiresAt(st)
  IN  IF expiresAt.k = "null" THEN TRUE ELSE NowGE(t, expiresAt)

\* The synchronous part of validateAndRefresh(): what it decides before it
\* awaits anything.  "refresh" means the refresh RPC is sent.
validateAndRefresh(st, t) ==
  IF getAccessToken(st) = NoToken \/ getRefreshToken(st) = NoToken THEN "clear"
  ELSE IF isRefreshTokenExpired(st, t) THEN "clear"
  ELSE IF isTokenExpired(st, t) \/ shouldRefreshToken(st, t) THEN "refresh"
  ELSE "valid"

\* ---------------------------------------------------------------- transport
\* A parsed JSON body.  keys are the properties an object has; ok is the
\* value of its "ok" property; error is its "error" property; code and
\* message are its own (top-level) properties; data is its "data" property;
\* items are an array's elements and len is its length.
\* A message is a text, written as the sequence of its fragments: a text
\* includes a listed substring when that substring is one of its fragments.
NoError == [typ |-> "absent", code |-> "", message |-> <<>>]

ErrorObject(c, m) == [typ |-> "object", code |-> c, message |-> m]

\* The value of a property an object does not have.
Undefined == [typ |-> "undefined"]

Number(n) == [typ |-> "number", n |-> n]

Body(typ, keys, ok, error, c, m, len) ==
  [typ |-> typ, keys |-> keys, ok |-> ok, error |-> error, code |-> c,
   message |-> m, len |-> len, data |-> Undefined, items |-> <<>>]

NullBody == Body("null", {}, "absent", NoError, "", <<>>, 0)

PlainObject == Body("object", {"id"}, "absent", NoError, "", <<>>, 0)

\* {ok:true, data:X} and {ok:true, data:X, meta:{...}}
SuccessOf(X) == [Body("object", {"ok", "data"}, "true", NoError, "", <<>>, 0) EXCEPT !.data = X]

SuccessWithMeta(X) == [SuccessOf(X) EXCEPT !.keys = {"ok", "data", "meta"}]

SuccessBody == SuccessOf(PlainObject)

NestedError(c, m) == Body("object", {"ok", "error"}, "false", ErrorObject(c, m), "", <<>>, 0)

FlatError(c, m) == Body("object", {"ok", "code", "message"}, "false", NoError, c, m, 0)

NativeError(c, m) ==
  Body("object", {"code", "message", "details", "hint"}, "absent", NoError, c, m, 0)

ArrayOf(items) ==
  [Body("array", {}, "absent", NoError, "", <<>>, Len(items)) EXCEPT !.items = items]

\* The array [1, ..., n].
ArrayBody(n) == ArrayOf([i \in 1..n |-> Number(i)])

includes(message, msg) == \E i \in DOMAIN message : message[i] = msg

\* typeof data === 'object' && data !== null
IsObject(data) == data.typ \in {"object", "array"}

isV2Success(data) ==
  /\ IsObject(data)
  /\ "ok" \in data.keys
  /\ data.ok = "true"
  /\ "data" \in data.keys

isV2Error(data) ==
  /\ IsObject(data)
  /\ "ok" \in data.keys
  /\ data.ok = "false"
  /\ "error" \in data.keys
  /\ data.error.typ = "object"

AUTH_ERROR_CODES == {"PGRST301", "PGRST302", "PGRST303", "PGRST116"}

AUTH_ERROR_MESSAGES ==
  {"AUTH_SESSION_REVOKED", "AUTH_SESSION_EXPIRED", "AUTH_INVALID_REFRESH", "JWT expired"}

isAuthErrorCodeOnly(c, message) == c \in AUTH_ERROR_CODES

isAuthError(c, message) ==
  IF c \in AUTH_ERROR_CODES THEN TRUE
  ELSE IF \E msg \in AUTH_ERROR_MESSAGES : includes(message, msg) THEN TRUE
  ELSE FALSE

\* handleV2Error's httpStatus parameter when the caller passes none.
NoStatus == -1

\* What a request comes to: it returns a value or throws; fired counts the
\* calls of triggerAuthError it made before throwing.
Returned(v) ==
  [threw |-> FALSE, kind |-> "value", value |-> v, code |-> "", message |-> <<>>,
   isAuthError |-> FALSE, fired |-> 0, sigCode |-> ""]

Thrown(kind, c, m, auth, sigCode) ==
  [threw |-> TRUE, kind |-> kind, value |-> Undefined, code |-> c, message |-> m,
   isAuthError |-> auth, fired |-> IF auth THEN 1 ELSE 0,
   sigCode |-> IF auth THEN sigCode ELSE ""]

handleV2Error(err, httpStatus) ==
  LET auth == isAuthError(err.code, err.message) \/ httpStatus = 401
  IN  Thrown("ApiError", err.code, err.message, auth, err.code)

parseResponseUnwrapTwice(data) ==
  IF isV2Error(data) THEN handleV2Error(data.error, NoStatus)
  ELSE IF isV2Success(data)
       THEN IF isV2Success(data.data) THEN Returned(data.data.data) ELSE Returned(data.data)
  ELSE Returned(data)

parseResponse(data) ==
  IF isV2Error(data) THEN handleV2Error(data.error, NoStatus)
  ELSE IF isV2Success(data) THEN Returned(data.data)
  ELSE IF data.typ = "array" THEN Returned(data)
  ELSE Returned(data)

\* The parser for the flat envelope {ok:false, code, message} that api.ts
\* holds as well: its isV2Error, checkAuthError and parseResponseData.
isV2ErrorFlat(data) ==
  /\ IsObject(data)
  /\ "ok" \in data.keys
  /\ data.ok = "false"
  /\ "code" \in data.keys

checkAuthError(c, message) ==
  IF c \in AUTH_ERROR_CODES THEN TRUE
  ELSE IF c = "P0001" THEN \E msg \in AUTH_ERROR_MESSAGES : includes(message, msg)
  ELSE FALSE

parseResponseData(data) ==
  IF isV2ErrorFlat(data)
  THEN Thrown("ApiError", data.code, data.message,
              checkAuthError(data.code, data.message), data.code)
  ELSE IF isV2Success(data) THEN Returned(data.data)
  ELSE IF data.typ = "array" /\ data.len = 1 THEN Returned(data.items[1])
  ELSE IF data.typ = "array" THEN Returned(data)
  ELSE Returned(data)

\* The endpoint label of the requests: the path the caller asked for.
Endpoint == "/rpc/some_fn"

handleNonV2Error(status) ==
  LET auth == status = 401
  IN  Thrown("ApiError", "HTTP_" \o ToString(status),
             <<"Request failed: ", Endpoint, " (HTTP ", ToString(status), ")">>,
             auth, "HTTP_401")

\* A response: the fetch fails (net = "fail"), or it brings a status and a body.
Response(status, body) == [net |-> "ok", status |-> status, body |-> body]

NetworkFailure == [net |-> "fail", status |-> 0, body |-> NullBody]

ResponseOk(response) == response.status >= 200 /\ response.status <= 299

requestBodyFirst(response) ==
  IF response.net = "fail" THEN Thrown("TransportError", "", <<>>, FALSE, "")
  ELSE IF isV2Error(response.body) THEN handleV2Error(response.body.error, response.status)
  ELSE IF isV2Success(response.body) \/ response.body.typ = "array"
       THEN parseResponse(response.body)
  ELSE IF ~ResponseOk(response) THEN handleNonV2Error(response.status)
  ELSE parseResponse(response.body)

request(response) ==
  IF response.net = "fail" THEN Thrown("TransportError", "", <<>>, FALSE, "")
  ELSE IF ~ResponseOk(response)
       THEN IF isV2Error(response.body)
            THEN handleV2Error(response.body.error, response.status)
            ELSE handleNonV2Error(response.status)
       ELSE parseResponse(response.body)

\* The normalizer that throws RFC 9457 problems (ApiError of ProblemDetails):
\* its type guards and its parseResponse.  code.includes('.') is true of the
\* namespaced codes.
DottedCodes == {"auth.session_expired"}

isV2SuccessResponse(data) == isV2Success(data)

isV2ErrorResponseAnyCode(data) ==
  /\ IsObject(data)
  /\ "code" \in data.keys

isV2ErrorResponse(data) ==
  /\ IsObject(data)
  /\ "code" \in data.keys
  /\ data.code \in DottedCodes

isPostgRESTError(data) ==
  /\ IsObject(data)
  /\ "code" \in data.keys
  /\ "message" \in data.keys
  /\ data.code \notin DottedCodes

\* The ApiError it throws: by which converter it was made, its code and status.
Problem(route, c, status) ==
  [threw |-> TRUE, kind |-> route, value |-> Undefined, code |-> c, status |-> status]

ProblemValue(v) ==
  [threw |-> FALSE, kind |-> "value", value |-> v, code |-> "", status |-> 0]

parseResponseProblem(response) ==
  LET body == response.body
  IN  IF ~ResponseOk(response)
      THEN IF isV2ErrorResponse(body) THEN Problem("v2ErrorToProblem", body.code, response.status)
           ELSE IF isPostgRESTError(body)
                THEN Problem("postgrestErrorToProblem", body.code, response.status)
           ELSE Problem("generic", "", response.status)
      ELSE IF isV2SuccessResponse(body) THEN ProblemValue(body.data)
      ELSE IF isV2ErrorResponse(body) THEN Problem("v2ErrorToProblem", body.code, 500)
      ELSE IF body.typ = "array" /\ body.len = 1 THEN ProblemValue(body.items[1])
      ELSE ProblemValue(body)

\* The codes and messages the backend is seen to send.
Codes == {"PGRST301", "auth.session_expired", "23505"}

Messages == { <<"Session expired">>, <<"ERROR: ", "JWT expired">> }

ErrorBodies ==
  UNION { {NestedError(c, m), FlatError(c, m), NativeError(c, m)} : c \in Codes, m \in Messages }

\* What an endpoint may send as its result: null, a number, an object, arrays
\* of no, one and two elements, and objects that are envelopes themselves.
Payloads ==
  { NullBody, Number(1), PlainObject, ArrayBody(0), ArrayBody(1), ArrayBody(2),
    ArrayOf(<<PlainObject>>), SuccessOf(Number(1)),
    NestedError("PGRST301", <<"Session expired">>),
    FlatError("auth.session_expired", <<"Session expired">>) }

\* The bodies that are no error envelope.
PlainBodies ==
  { NullBody, PlainObject, ArrayBody(0), ArrayBody(1), ArrayBody(2), ArrayOf(<<PlainObject>>) }
  \cup { SuccessOf(X) : X \in Payloads }
  \cup { SuccessWithMeta(X) : X \in {NullBody, NestedError("PGRST301", <<"Session expired">>)} }

\* Every response a data request may get: each plain body on 200, some on 201
\* and on error statuses; each error envelope in band and on error statuses.
DataResponses ==
  { Response(200, b) : b \in PlainBodies }
  \cup { Response(201, b) : b \in {SuccessBody, ArrayBody(1)} }
  \cup { Response(s, NestedError(c, m)) : s \in {200, 401, 409}, c \in Codes, m \in Messages }
  \cup { Response(s, b) : s \in {200, 409}, b \in ErrorBodies }
  \cup { Response(s, b) : s \in {401, 500},
                          b \in {NullBody, PlainObject, SuccessBody, ArrayBody(1), ArrayBody(2)} }
  \cup { Response(404, b) : b \in {NullBody, ArrayBody(0)} }
  \cup { NetworkFailure }

\* One response of each kind, for the requests whose body is of no interest.
Probes ==
  { Response(200, SuccessBody), Response(200, NestedError("PGRST301", <<"Session expired">>)),
    Response(409, NestedError("23505", <<"Session expired">>)), Response(401, NullBody),
    Response(200, FlatError("auth.session_expired", <<"Session expired">>)), NetworkFailure }

\* The auth endpoints (login, refresh, logout, me, switch_holding) answer in
\* the envelope of api.ts: {ok:true,data} with the RPC's result, or they fail.
AuthFailures ==
  { Response(s, NestedError(c, m)) : s \in {200, 401}, c \in {"PGRST301", "P0001"},
                                     m \in {<<"invalid_login">>, <<"AUTH_INVALID_REFRESH">>} }
  \cup { Response(401, NullBody), Response(500, NullBody), NetworkFailure }

\* -------------------------------------------------------------------- state
VARIABLES
  storage,               \* localStorage: the five persisted keys
  now,                   \* the clock, in ms
  user,                  \* AuthProvider: useState user
  isLoading,             \* AuthProvider: useState isLoading
  needsHoldingSelect,    \* AuthProvider: useState needsHoldingSelect
  hasHandledAuthError,   \* AuthProvider: the one-shot latch (useRef)
  isLoginInProgress,     \* AuthProvider: the login guard (useRef)
  suppressAuthRedirect,  \* AuthProvider: the bootstrap suppression flag (useRef)
  href,                  \* window.location.href, as the teardown sets it
  isRefreshing,          \* queryClient.ts: let isRefreshing
  refreshPromise,        \* queryClient.ts: let refreshPromise (0: null)
  promises,              \* the promises ensureValidToken() created, by number
  ensureRpcs,            \* refresh RPCs in flight that ensureValidToken() sent
  initPc,                \* where initAuth() stands
  loginPc,               \* where login() stands
  bgMe,                  \* background me() calls of login() in flight
  logouts,               \* logout() calls waiting for the logout RPC
  switchPc,              \* where switchHolding() stands
  panelPc,               \* TokenDebugPanel: the automatic refresh (refreshingRef)
  expiredSince,          \* TokenDebugPanel: expiredSinceRef
  manual,                \* TokenDebugPanel: manual refresh RPCs in flight
  data,                  \* data requests of the pages in flight
  calls,                 \* the ensureValidToken() calls made so far
  ops,                   \* operations started so far
  redirects,             \* full navigations to the login screen
  sig,                   \* what handleAuthError did in the last step
  event,                 \* what the last step settled
  lastData,              \* the last data request: its response and outcome
  probe                  \* the last direct call of a library function: inputs and result

tokenVars == <<isRefreshing, refreshPromise, promises, ensureRpcs, calls>>

flagVars == <<isLoading, needsHoldingSelect, isLoginInProgress, suppressAuthRedirect>>

handlerVars == <<storage, user, hasHandledAuthError, href, redirects, sig>>

procVars == <<initPc, loginPc, bgMe, logouts, switchPc, panelPc, expiredSince, manual, data>>

vars == <<now, tokenVars, flagVars, handlerVars, procVars, ops, event, lastData, probe>>

\* useState<UserInfo | null>: null, the provisional user login() builds from
\* the login response, or the user me() returns; holding is holding_id.
NoUser == [kind |-> "null", holding |-> "null"]

Holdings == {"null", "h1"}

ProvisionalUser(h) == [kind |-> "login", holding |-> h]

UserInfo(h) == [kind |-> "me", holding |-> h]

AppHref == "/"

LoginHref == "/login?reason=session_expired"

\* expiredSinceRef.current = null
NullRef == -1

\* ------------------------------------------------------- session controller
\* The part of the state a response handler works on, step by step; sig tells
\* what handleAuthError did in the step: "none" (not called), "suppressed",
\* "torn" (it tore the session down) or "latched" (it had done so before).
Pre ==
  [storage |-> storage, user |-> user, latch |-> hasHandledAuthError, href |-> href,
   redirects |-> redirects, sig |-> "none"]

Commit(s) ==
  /\ storage' = s.storage
  /\ user' = s.user
  /\ hasHandledAuthError' = s.latch
  /\ href' = s.href
  /\ redirects' = s.redirects
  /\ sig' = s.sig

\* A step that neither calls handleAuthError nor writes what it writes.
Quiet == Commit(Pre)

handleAuthErrorNoLatch(s) ==
  IF isLoginInProgress \/ suppressAuthRedirect THEN [s EXCEPT !.sig = "suppressed"]
  ELSE [s EXCEPT !.latch = TRUE, !.storage = clearTokens, !.user = NoUser,
                 !.href = LoginHref, !.redirects = @ + 1, !.sig = "torn"]

handleAuthErrorNoLoginGuard(s) ==
  IF suppressAuthRedirect THEN [s EXCEPT !.sig = "suppressed"]
  ELSE IF s.latch THEN [s EXCEPT !.sig = "latched"]
  ELSE [s EXCEPT !.latch = TRUE, !.storage = clearTokens, !.user = NoUser,
                 !.href = LoginHref, !.redirects = @ + 1, !.sig = "torn"]

handleAuthErrorLatchFirst(s) ==
  IF s.latch THEN [s EXCEPT !.sig = "latched"]
  ELSE IF isLoginInProgress \/ suppressAuthRedirect
       THEN [s EXCEPT !.latch = TRUE, !.sig = "suppressed"]
  ELSE [s EXCEPT !.latch = TRUE, !.storage = clearTokens, !.user = NoUser,
                 !.href = LoginHref, !.redirects = @ + 1, !.sig = "torn"]

handleAuthError(s) ==
  IF isLoginInProgress \/ suppressAuthRedirect THEN [s EXCEPT !.sig = "suppressed"]
  ELSE IF s.latch THEN [s EXCEPT !.sig = "latched"]
  ELSE [s EXCEPT !.latch = TRUE, !.storage = clearTokens, !.user = NoUser,
                 !.href = LoginHref, !.redirects = @ + 1, !.sig = "torn"]

\* setAuthErrorHandler(handleAuthError) ran when the provider mounted.
onAuthError == "handleAuthError"

triggerAuthError(s) ==
  IF onAuthError # "null" THEN handleAuthError(s) ELSE s

\* The state after a request came to the outcome out.
AfterRequest(out) ==
  IF out.fired > 0 THEN triggerAuthError(Pre) ELSE Pre

LogoutResponses == AuthFailures \cup {Response(200, SuccessBody)}

\* The outcome of a request that was never sent.
NotSent == Returned(Undefined)

LoggedOutUnlessFailed(s, out) ==
  IF out.threw THEN s ELSE [s EXCEPT !.storage = clearTokens, !.user = NoUser]

\* authService.logout() and setUser(null) of logout(), once the logout RPC
\* came to the outcome out (or was never sent): a failure is caught and ignored.
LoggedOut(s, out) == [s EXCEPT !.storage = clearTokens, !.user = NoUser]

\* Everything but localStorage when the page has loaded and AuthProvider has
\* been mounted: the initial values of its state and refs and of the modules.
PageLoad ==
  /\ now = 0
  /\ user = NoUser
  /\ isLoading = TRUE
  /\ needsHoldingSelect = FALSE
  /\ hasHandledAuthError = FALSE
  /\ isLoginInProgress = FALSE
  /\ suppressAuthRedirect = FALSE
  /\ href = AppHref
  /\ isRefreshing = FALSE
  /\ refreshPromise = 0
  /\ promises = [g \in 1..MaxOps |-> "unused"]
  /\ ensureRpcs = {}
  /\ initPc = "start"
  /\ loginPc = "idle"
  /\ bgMe = 0
  /\ logouts = 0
  /\ switchPc = "idle"
  /\ panelPc = "idle"
  /\ expiredSince = NullRef
  /\ manual = 0
  /\ data = 0
  /\ calls = <<>>
  /\ ops = 0
  /\ redirects = 0
  /\ sig = "none"
  /\ event = "none"
  /\ lastData = <<>>
  /\ probe = <<>>

Init ==
  /\ storage \in InitStores
  /\ PageLoad

\* authService.refresh() once the refresh RPC succeeded with the pair.
refresh(s, pair) == [s EXCEPT !.storage = storeTokens(pair)]

\* validateAndRefresh() once its refresh() settled: the state it leaves and
\* what its promise does ("true", "false", or "rejected").
validateAndRefreshOk(s, pair) == [state |-> refresh(s, pair), result |-> "true"]

validateAndRefreshRethrows(s) == [state |-> s, result |-> "rejected"]

validateAndRefreshFailed(s) ==
  [state |-> [s EXCEPT !.storage = clearTokens], result |-> "false"]

\* ----------------------------------------------------------------- initAuth
\* The branch of initAuth() taken when validateAndRefresh() said false.
InitInvalid(s) == [s EXCEPT !.storage = clearTokens, !.user = NoUser]

\* initAuth() up to its first network await.
InitAuthStart ==
  /\ initPc = "start"
  /\ IF isLoginInProgress
     THEN /\ Quiet
          /\ isLoading' = FALSE
          /\ initPc' = "done"
          /\ event' = "none"
          /\ UNCHANGED suppressAuthRedirect
     ELSE LET d == validateAndRefresh(storage, now)
          IN  CASE d = "clear" ->
                     /\ Commit(InitInvalid([Pre EXCEPT !.storage = clearTokens]))
                     /\ isLoading' = FALSE
                     /\ initPc' = "done"
                     /\ event' = "init_invalid"
                     /\ UNCHANGED suppressAuthRedirect
                [] d = "refresh" ->
                     /\ Quiet
                     /\ initPc' = "refresh"
                     /\ event' = "none"
                     /\ UNCHANGED <<isLoading, suppressAuthRedirect>>
                [] d = "valid" ->
                     /\ Quiet
                     /\ suppressAuthRedirect' = TRUE
                     /\ initPc' = "me"
                     /\ event' = "none"
                     /\ UNCHANGED isLoading
  /\ UNCHANGED <<now, tokenVars, needsHoldingSelect, isLoginInProgress, loginPc, bgMe,
                 logouts, switchPc, panelPc, expiredSince, manual, data, ops, lastData, probe>>

\* The refresh RPC of validateAndRefresh() answers initAuth().
InitRefreshOk ==
  /\ initPc = "refresh"
  /\ \E pair \in TokenPairs(now) :
       LET v == validateAndRefreshOk(Pre, pair)
       IN  /\ Commit(v.state)
           /\ suppressAuthRedirect' = (v.result = "true")
           /\ initPc' = IF v.result = "true" THEN "me" ELSE "aborted"
  /\ event' = "none"
  /\ UNCHANGED <<now, tokenVars, isLoading, needsHoldingSelect, isLoginInProgress, loginPc,
                 bgMe, logouts, switchPc, panelPc, expiredSince, manual, data, ops, lastData, probe>>

InitRefreshFail ==
  /\ initPc = "refresh"
  /\ \E response \in AuthFailures :
       LET v == validateAndRefreshFailed(AfterRequest(request(response)))
       IN  IF v.result = "false"
           THEN /\ Commit(InitInvalid(v.state))
                /\ isLoading' = FALSE
                /\ initPc' = "done"
           ELSE /\ Commit(v.state)
                /\ isLoading' = isLoading
                /\ initPc' = "aborted"
  /\ event' = "init_refresh_failed"
  /\ UNCHANGED <<now, tokenVars, needsHoldingSelect, isLoginInProgress, suppressAuthRedirect,
                 loginPc, bgMe, logouts, switchPc, panelPc, expiredSince, manual, data, ops,
                 lastData, probe>>

\* The me() call of initAuth() answers.
InitMeOk ==
  /\ initPc = "me"
  /\ \E h \in Holdings :
       /\ Commit([Pre EXCEPT !.user = UserInfo(h)])
       /\ needsHoldingSelect' = (h = "null")
  /\ suppressAuthRedirect' = FALSE
  /\ isLoading' = FALSE
  /\ initPc' = "done"
  /\ event' = "init_ok"
  /\ UNCHANGED <<now, tokenVars, isLoginInProgress, loginPc, bgMe, logouts, switchPc,
                 panelPc, expiredSince, manual, data, ops, lastData, probe>>

InitMeFail ==
  /\ initPc = "me"
  /\ \E response \in AuthFailures :
       LET s == AfterRequest(request(response))
       IN  Commit([s EXCEPT !.storage = clearTokens, !.user = NoUser])
  /\ suppressAuthRedirect' = FALSE
  /\ isLoading' = FALSE
  /\ initPc' = "done"
  /\ event' = "init_me_failed"
  /\ UNCHANGED <<now, tokenVars, needsHoldingSelect, isLoginInProgress, loginPc, bgMe,
                 logouts, switchPc, panelPc, expiredSince, manual, data, ops, lastData, probe>>

\* -------------------------------------------------------------------- login
\* The login form disables its button while a login is pending.
LoginStart ==
  /\ loginPc = "idle"
  /\ ops < MaxOps
  /\ ops' = ops + 1
  /\ Quiet
  /\ isLoginInProgress' = TRUE
  /\ loginPc' = "rpc"
  /\ event' = "none"
  /\ UNCHANGED <<now, tokenVars, isLoading, needsHoldingSelect, suppressAuthRedirect, initPc,
                 bgMe, logouts, switchPc, panelPc, expiredSince, manual, data, lastData, probe>>

LoginOk ==
  /\ loginPc = "rpc"
  /\ \E pair \in TokenPairs(now), h \in Holdings :
       /\ Commit([Pre EXCEPT !.storage = storeTokens(pair), !.user = ProvisionalUser(h)])
       /\ needsHoldingSelect' = (h = "null")
       /\ bgMe' = IF h = "null" THEN bgMe ELSE bgMe + 1
  /\ isLoginInProgress' = FALSE
  /\ loginPc' = "idle"
  /\ event' = "login_resolved"
  /\ UNCHANGED <<now, tokenVars, isLoading, suppressAuthRedirect, initPc, logouts, switchPc,
                 panelPc, expiredSince, manual, data, ops, lastData, probe>>

LoginFail ==
  /\ loginPc = "rpc"
  /\ \E response \in AuthFailures : Commit(AfterRequest(request(response)))
  /\ isLoginInProgress' = FALSE
  /\ loginPc' = "idle"
  /\ event' = "login_thrown"
  /\ UNCHANGED <<now, tokenVars, isLoading, needsHoldingSelect, suppressAuthRedirect, initPc,
                 bgMe, logouts, switchPc, panelPc, expiredSince, manual, data, ops, lastData, probe>>

\* The background me() of login() answers: then(setUser), catch(() => {}).
LoginMeOk ==
  /\ bgMe > 0
  /\ bgMe' = bgMe - 1
  /\ \E h \in Holdings : Commit([Pre EXCEPT !.user = UserInfo(h)])
  /\ event' = "login_me_ok"
  /\ UNCHANGED <<now, tokenVars, flagVars, initPc, loginPc, logouts, switchPc, panelPc,
                 expiredSince, manual, data, ops, lastData, probe>>

LoginMeFail ==
  /\ bgMe > 0
  /\ bgMe' = bgMe - 1
  /\ \E response \in AuthFailures : Commit(AfterRequest(request(response)))
  /\ event' = "login_me_failed"
  /\ UNCHANGED <<now, tokenVars, flagVars, initPc, loginPc, logouts, switchPc, panelPc,
                 expiredSince, manual, data, ops, lastData, probe>>

\* --------------------------------------------------------- ensureValidToken
\* What ensureValidToken() does, from the storage, the clock and the two
\* module variables: return false, return the promise in flight ("join"),
\* start validateAndRefresh() ("start"), or return true.
ensureValidTokenNoJoin(st, t, refreshing, promise) ==
  IF getAccessToken(st) = NoToken THEN "false"
  ELSE IF shouldRefreshToken(st, t) \/ isTokenExpired(st, t) THEN "start"
  ELSE "true"

ensureValidTokenNullCheck(st, t, refreshing, promise) ==
  IF getAccessToken(st) = NoToken THEN "false"
  ELSE IF shouldRefreshToken(st, t) \/ isTokenExpired(st, t)
       THEN IF refreshing /\ promise = 0 THEN "join" ELSE "start"
       ELSE "true"

ensureValidTokenRawItem(st, t, refreshing, promise) ==
  IF Falsy(st.access_token) THEN "false"
  ELSE IF shouldRefreshToken(st, t) \/ isTokenExpired(st, t)
       THEN IF refreshing /\ promise # 0 THEN "join" ELSE "start"
       ELSE "true"

ensureValidToken(st, t, refreshing, promise) ==
  IF getAccessToken(st) = NoToken THEN "false"
  ELSE IF shouldRefreshToken(st, t) \/ isTokenExpired(st, t)
       THEN IF refreshing /\ promise # 0 THEN "join" ELSE "start"
       ELSE "true"

\* The record of one call: during is the promise whose refresh RPC was in
\* flight when the call was made (0: none); the call returned the promise gen,
\* or (gen = 0) the value val at once.
Call(during, gen, val) == [during |-> during, gen |-> gen, val |-> val]

InFlight == IF ensureRpcs = {} THEN 0 ELSE CHOOSE g \in ensureRpcs : \A h \in ensureRpcs : h <= g

EnsureValidToken ==
  /\ ops < MaxOps
  /\ ops' = ops + 1
  /\ LET i == Len(calls) + 1
         e == ensureValidToken(storage, now, isRefreshing, refreshPromise)
         d == validateAndRefresh(storage, now)
     IN  CASE e \in {"false", "true"} ->
                /\ calls' = Append(calls, Call(InFlight, 0, e))
                /\ Quiet
                /\ UNCHANGED <<isRefreshing, refreshPromise, promises, ensureRpcs>>
           [] e = "join" ->
                /\ calls' = Append(calls, Call(InFlight, refreshPromise, ""))
                /\ Quiet
                /\ UNCHANGED <<isRefreshing, refreshPromise, promises, ensureRpcs>>
           [] e = "start" /\ d = "refresh" ->
                /\ calls' = Append(calls, Call(InFlight, i, ""))
                /\ Quiet
                /\ isRefreshing' = TRUE
                /\ refreshPromise' = i
                /\ promises' = [promises EXCEPT ![i] = "pending"]
                /\ ensureRpcs' = ensureRpcs \cup {i}
           [] e = "start" /\ d # "refresh" ->
                \* validateAndRefresh() settled without a request; the finally
                \* callback runs before any other task.
                /\ calls' = Append(calls, Call(InFlight, i, ""))
                /\ Commit([Pre EXCEPT !.storage = IF d = "clear" THEN clearTokens ELSE @])
                /\ isRefreshing' = FALSE
                /\ refreshPromise' = 0
                /\ promises' = [promises EXCEPT ![i] = IF d = "valid" THEN "true" ELSE "false"]
                /\ UNCHANGED ensureRpcs
  /\ event' = "ensure_called"
  /\ UNCHANGED <<now, flagVars, procVars, lastData, probe>>

\* The refresh RPC of promise g answers; then the finally callback.
EnsureRefreshOk ==
  \E g \in ensureRpcs :
    /\ \E pair \in TokenPairs(now) :
         LET v == validateAndRefreshOk(Pre, pair)
         IN  /\ Commit(v.state)
             /\ promises' = [promises EXCEPT ![g] = v.result]
    /\ ensureRpcs' = ensureRpcs \ {g}
    /\ isRefreshing' = FALSE
    /\ refreshPromise' = 0
    /\ event' = "ensure_refreshed"
    /\ UNCHANGED <<now, calls, flagVars, procVars, ops, lastData, probe>>

EnsureRefreshFail ==
  \E g \in ensureRpcs :
    /\ \E response \in AuthFailures :
         LET v == validateAndRefreshFailed(AfterRequest(request(response)))
         IN  /\ Commit(v.state)
             /\ promises' = [promises EXCEPT ![g] = v.result]
    /\ ensureRpcs' = ensureRpcs \ {g}
    /\ isRefreshing' = FALSE
    /\ refreshPromise' = 0
    /\ event' = "ensure_refresh_failed"
    /\ UNCHANGED <<now, calls, flagVars, procVars, ops, lastData, probe>>

\* ------------------------------------------------------------------- logout
\* logout() of the user menu.  Without a refresh token no RPC is sent.
LogoutStart ==
  /\ ops < MaxOps
  /\ ops' = ops + 1
  /\ IF getRefreshToken(storage) = NoToken
     THEN /\ Commit(LoggedOut(Pre, NotSent))
          /\ needsHoldingSelect' = FALSE
          /\ event' = "logout"
          /\ UNCHANGED logouts
     ELSE /\ Quiet
          /\ logouts' = logouts + 1
          /\ event' = "none"
          /\ UNCHANGED needsHoldingSelect
  /\ UNCHANGED <<now, tokenVars, isLoading, isLoginInProgress, suppressAuthRedirect, initPc,
                 loginPc, bgMe, switchPc, panelPc, expiredSince, manual, data, lastData, probe>>

\* The logout RPC answers, with success or failure: the failure is swallowed.
LogoutDone ==
  /\ logouts > 0
  /\ logouts' = logouts - 1
  /\ \E response \in LogoutResponses :
       LET out == request(response) IN Commit(LoggedOut(AfterRequest(out), out))
  /\ needsHoldingSelect' = FALSE
  /\ event' = "logout"
  /\ UNCHANGED <<now, tokenVars, isLoading, isLoginInProgress, suppressAuthRedirect, initPc,
                 loginPc, bgMe, switchPc, panelPc, expiredSince, manual, data, ops, lastData, probe>>

\* ------------------------------------------------------------ switchHolding
SwitchStart ==
  /\ switchPc = "idle"
  /\ ops < MaxOps
  /\ ops' = ops + 1
  /\ Quiet
  /\ switchPc' = "rpc"
  /\ event' = "none"
  /\ UNCHANGED <<now, tokenVars, flagVars, initPc, loginPc, bgMe, logouts, panelPc,
                 expiredSince, manual, data, lastData, probe>>

switchHoldingStoreAll(st, result) ==
  [EmptyStore EXCEPT !.access_token = result.access_token,
                     !.expires_at = result.expires_at,
                     !.user_id = st.user_id]

\* The two setItem calls of authService.switchHolding() once its RPC has
\* returned result.
switchHolding(st, result) ==
  [st EXCEPT !.access_token = result.access_token, !.expires_at = result.expires_at]

\* authService.switchHolding() writes the access token and its expiry only.
SwitchOk ==
  /\ switchPc = "rpc"
  /\ \E r \in SwitchResponses(now) :
       Commit([Pre EXCEPT !.storage = switchHolding(storage, r)])
  /\ switchPc' = "me"
  /\ event' = "switch_stored"
  /\ UNCHANGED <<now, tokenVars, flagVars, initPc, loginPc, bgMe, logouts, panelPc,
                 expiredSince, manual, data, ops, lastData, probe>>

SwitchFail ==
  /\ switchPc \in {"rpc", "me"}
  /\ \E response \in AuthFailures : Commit(AfterRequest(request(response)))
  /\ switchPc' = "idle"
  /\ event' = "switch_thrown"
  /\ UNCHANGED <<now, tokenVars, flagVars, initPc, loginPc, bgMe, logouts, panelPc,
                 expiredSince, manual, data, ops, lastData, probe>>

SwitchMeOk ==
  /\ switchPc = "me"
  /\ \E h \in Holdings : Commit([Pre EXCEPT !.user = UserInfo(h)])
  /\ needsHoldingSelect' = FALSE
  /\ switchPc' = "idle"
  /\ event' = "switch_resolved"
  /\ UNCHANGED <<now, tokenVars, isLoading, isLoginInProgress, suppressAuthRedirect, initPc,
                 loginPc, bgMe, logouts, panelPc, expiredSince, manual, data, ops, lastData, probe>>

\* ---------------------------------------------------------- TokenDebugPanel
\* isExpired of update(): a valid date not after now.
PanelExpired(st, t) ==
  LET expiresAt == getExpiresAt(st)
  IN  expiresAt.k = "date" /\ expiresAt.t - t <= 0

\* expiredSinceRef after "if (expiredSinceRef.current === null) ... = Date.now()".
Since(es, t) == IF es = NullRef THEN t ELSE es

GraceOver(es, t) == t - Since(es, t) >= EXPIRED_GRACE_PERIOD_MS

\* One run of update() (the 1 s interval) up to its first network await; auto
\* is the position of the auto-refresh switch.
PanelTick ==
  /\ ops < MaxOps
  /\ ops' = ops + 1
  /\ \E auto \in BOOLEAN :
       CASE PanelExpired(storage, now) /\ panelPc = "idle" /\ auto
              /\ getRefreshToken(storage) # NoToken ->
              \* refreshingRef is set and the refresh RPC is sent
              /\ Quiet
              /\ panelPc' = "refresh"
              /\ event' = "none"
              /\ UNCHANGED <<needsHoldingSelect, expiredSince, logouts>>
         [] PanelExpired(storage, now) /\ panelPc = "idle" /\ auto
              /\ getRefreshToken(storage) = NoToken ->
              \* refresh() throws at once; logout() then sends no RPC either
              /\ expiredSince' = Since(expiredSince, now)
              /\ IF GraceOver(expiredSince, now)
                 THEN /\ Commit(LoggedOut(Pre, NotSent))
                      /\ needsHoldingSelect' = FALSE
                      /\ event' = "logout"
                 ELSE /\ Quiet
                      /\ event' = "none"
                      /\ UNCHANGED needsHoldingSelect
              /\ UNCHANGED <<panelPc, logouts>>
         [] PanelExpired(storage, now) /\ panelPc = "idle" /\ ~auto ->
              /\ expiredSince' = Since(expiredSince, now)
              /\ IF ~GraceOver(expiredSince, now)
                 THEN /\ Quiet
                      /\ event' = "none"
                      /\ UNCHANGED <<needsHoldingSelect, logouts>>
                 ELSE IF getRefreshToken(storage) = NoToken
                      THEN /\ Commit(LoggedOut(Pre, NotSent))
                           /\ needsHoldingSelect' = FALSE
                           /\ event' = "logout"
                           /\ UNCHANGED logouts
                      ELSE /\ Quiet
                           /\ logouts' = logouts + 1
                           /\ event' = "none"
                           /\ UNCHANGED needsHoldingSelect
              /\ UNCHANGED panelPc
         [] PanelExpired(storage, now) /\ panelPc # "idle" ->
              /\ Quiet
              /\ event' = "none"
              /\ UNCHANGED <<needsHoldingSelect, expiredSince, logouts, panelPc>>
         [] ~PanelExpired(storage, now) ->
              /\ Quiet
              /\ expiredSince' = NullRef
              /\ event' = "none"
              /\ UNCHANGED <<needsHoldingSelect, logouts, panelPc>>
  /\ UNCHANGED <<now, tokenVars, isLoading, isLoginInProgress, suppressAuthRedirect, initPc,
                 loginPc, bgMe, switchPc, manual, data, lastData, probe>>

\* The automatic refresh answers.
PanelRefreshOk ==
  /\ panelPc = "refresh"
  /\ \E pair \in TokenPairs(now) : Commit(refresh(Pre, pair))
  /\ expiredSince' = NullRef
  /\ panelPc' = "idle"
  /\ event' = "panel_refreshed"
  /\ UNCHANGED <<now, tokenVars, flagVars, initPc, loginPc, bgMe, logouts, switchPc, manual,
                 data, ops, lastData, probe>>

PanelRefreshFail ==
  /\ panelPc = "refresh"
  /\ expiredSince' = Since(expiredSince, now)
  /\ \E response \in AuthFailures :
       LET s == AfterRequest(request(response))
       IN  IF ~GraceOver(expiredSince, now)
           THEN /\ Commit(s)
                /\ panelPc' = "idle"
                /\ event' = "none"
                /\ UNCHANGED needsHoldingSelect
           ELSE IF getRefreshToken(s.storage) = NoToken
                THEN /\ Commit(LoggedOut(s, NotSent))
                     /\ needsHoldingSelect' = FALSE
                     /\ panelPc' = "idle"
                     /\ event' = "logout"
                ELSE /\ Commit(s)
                     /\ panelPc' = "logout"
                     /\ event' = "none"
                     /\ UNCHANGED needsHoldingSelect
  /\ UNCHANGED <<now, tokenVars, isLoading, isLoginInProgress, suppressAuthRedirect, initPc,
                 loginPc, bgMe, logouts, switchPc, manual, data, ops, lastData, probe>>

\* The logout RPC of the panel's "await logout()" answers; refreshingRef is released.
PanelLogoutDone ==
  /\ panelPc = "logout"
  /\ \E response \in LogoutResponses :
       LET out == request(response) IN Commit(LoggedOut(AfterRequest(out), out))
  /\ needsHoldingSelect' = FALSE
  /\ panelPc' = "idle"
  /\ event' = "logout"
  /\ UNCHANGED <<now, tokenVars, isLoading, isLoginInProgress, suppressAuthRedirect, initPc,
                 loginPc, bgMe, logouts, switchPc, expiredSince, manual, data, ops, lastData, probe>>

\* handleManualRefresh: nothing guards it against a refresh already in flight.
ManualRefresh ==
  /\ ops < MaxOps
  /\ ops' = ops + 1
  /\ Quiet
  /\ manual' = IF getRefreshToken(storage) = NoToken THEN manual ELSE manual + 1
  /\ event' = "none"
  /\ UNCHANGED <<now, tokenVars, flagVars, initPc, loginPc, bgMe, logouts, switchPc, panelPc,
                 expiredSince, data, lastData, probe>>

ManualRefreshOk ==
  /\ manual > 0
  /\ manual' = manual - 1
  /\ \E pair \in TokenPairs(now) : Commit(refresh(Pre, pair))
  /\ event' = "manual_refreshed"
  /\ UNCHANGED <<now, tokenVars, flagVars, initPc, loginPc, bgMe, logouts, switchPc, panelPc,
                 expiredSince, data, ops, lastData, probe>>

ManualRefreshFail ==
  /\ manual > 0
  /\ manual' = manual - 1
  /\ \E response \in AuthFailures : Commit(AfterRequest(request(response)))
  /\ event' = "manual_failed"
  /\ UNCHANGED <<now, tokenVars, flagVars, initPc, loginPc, bgMe, logouts, switchPc, panelPc,
                 expiredSince, data, ops, lastData, probe>>

\* ------------------------------------------------------------ data requests
\* A page calls apiClient.get/post/rpc; nothing but the auth-error signal of
\* its failure touches the session.
DataRequest ==
  /\ ops < MaxOps
  /\ ops' = ops + 1
  /\ Quiet
  /\ data' = data + 1
  /\ event' = "none"
  /\ UNCHANGED <<now, tokenVars, flagVars, initPc, loginPc, bgMe, logouts, switchPc, panelPc,
                 expiredSince, manual, lastData, probe>>

\* The response of a data request arrives.
Answer(response) ==
  /\ data > 0
  /\ data' = data - 1
  /\ Commit(AfterRequest(request(response)))
  /\ event' = "data"
  /\ UNCHANGED <<now, tokenVars, flagVars, initPc, loginPc, bgMe, logouts, switchPc, panelPc,
                 expiredSince, manual, ops>>

DataResponse ==
  /\ \E response \in Probes : Answer(response)
  /\ UNCHANGED <<lastData, probe>>

\* The same, keeping the response and what each parser makes of it.
DataResponseLogged ==
  \E response \in DataResponses :
    /\ Answer(response)
    /\ lastData' = <<[response |-> response, outcome |-> request(response),
                      flat |-> parseResponseData(response.body),
                      problem |-> parseResponseProblem(response)]>>
    /\ UNCHANGED probe

Tick ==
  /\ now < MaxTick * TimeStep
  /\ now' = now + TimeStep
  /\ Quiet
  /\ event' = "none"
  /\ UNCHANGED <<tokenVars, flagVars, procVars, ops, lastData, probe>>

Next ==
  \/ Tick
  \/ InitAuthStart \/ InitRefreshOk \/ InitRefreshFail \/ InitMeOk \/ InitMeFail
  \/ LoginStart \/ LoginOk \/ LoginFail \/ LoginMeOk \/ LoginMeFail
  \/ EnsureValidToken \/ EnsureRefreshOk \/ EnsureRefreshFail
  \/ LogoutStart \/ LogoutDone
  \/ SwitchStart \/ SwitchOk \/ SwitchFail \/ SwitchMeOk
  \/ PanelTick \/ PanelRefreshOk \/ PanelRefreshFail \/ PanelLogoutDone
  \/ ManualRefresh \/ ManualRefreshOk \/ ManualRefreshFail
  \/ DataRequest \/ DataResponse

Spec == Init /\ [][Next]_vars

\* The effect that calls initAuth() runs once the provider has mounted, and
\* every request initAuth() awaits is answered, with success or with failure.
Bootstrap ==
  /\ WF_vars(InitAuthStart)
  /\ WF_vars(InitRefreshOk \/ InitRefreshFail)
  /\ WF_vars(InitMeOk \/ InitMeFail)

SpecLive == Init /\ [][Next]_vars /\ Bootstrap

\* The transport under the session controller: the page loads, initAuth()
\* runs, pages send data requests and every kind of response comes back.
NextTransport ==
  \/ InitAuthStart \/ InitRefreshOk \/ InitRefreshFail \/ InitMeOk \/ InitMeFail
  \/ DataRequest \/ DataResponseLogged

SpecTransport == Init /\ [][NextTransport]_vars

\* ------------------------------------------------------------- getPaginated
PageSizes == {1, 10, 15}

RangeHeadersZeroBased(page, pageSize) ==
  LET offset == page * pageSize
      rangeEnd == offset + pageSize - 1
  IN  ("Range-Unit" :> "items")
        @@ ("Range" :> (ToString(offset) \o "-" \o ToString(rangeEnd)))
        @@ ("Prefer" :> "count=exact")

\* The headers getPaginated adds to those of getHeaders; the Range header is
\* the text `${offset}-${rangeEnd}`.
RangeHeaders(page, pageSize) ==
  LET offset == (page - 1) * pageSize
      rangeEnd == offset + pageSize - 1
  IN  ("Range-Unit" :> "items")
        @@ ("Range" :> (ToString(offset) \o "-" \o ToString(rangeEnd)))
        @@ ("Prefer" :> "count=exact")

\* A response header is a text, written as the sequence of its characters.
IsDigit(ch) == ch \in {"0", "1", "2", "3", "4", "5", "6", "7", "8", "9"}

DigitValue(ch) ==
  CASE ch = "0" -> 0 [] ch = "1" -> 1 [] ch = "2" -> 2 [] ch = "3" -> 3 [] ch = "4" -> 4
    [] ch = "5" -> 5 [] ch = "6" -> 6 [] ch = "7" -> 7 [] ch = "8" -> 8 [] ch = "9" -> 9

\* parseInt(digits, 10) of a run of decimal digits.
RECURSIVE parseInt(_)
parseInt(digits) ==
  IF digits = <<>> THEN 0
  ELSE 10 * parseInt(SubSeq(digits, 1, Len(digits) - 1)) + DigitValue(digits[Len(digits)])

\* \d+ from position i on: the longest run of digits.
RECURSIVE DigitRun(_, _)
DigitRun(text, i) ==
  IF i <= Len(text) /\ IsDigit(text[i]) THEN <<text[i]>> \o DigitRun(text, i + 1) ELSE <<>>

\* contentRange.match(/\/(\d+)/)[1]: the digits after the first "/" that a
\* digit follows; the empty text stands for no match.
match(text) ==
  LET at == { i \in 1..Len(text) : i < Len(text) /\ text[i] = "/" /\ IsDigit(text[i + 1]) }
  IN  IF at = {} THEN <<>>
      ELSE DigitRun(text, (CHOOSE i \in at : \A j \in at : i <= j) + 1)

totalCount(contentRange, body) ==
  IF match(contentRange) # <<>> THEN parseInt(match(contentRange))
  ELSE IF body.typ = "array" THEN body.len ELSE 0

\* What getPaginated returns.
Page(rows, n) == [typ |-> "page", data |-> rows, totalCount |-> n]

\* getPaginated once the response has arrived; contentRange is
\* response.headers.get('Content-Range') ?? ''.
getPaginated(response, contentRange) ==
  IF response.net = "fail" THEN Thrown("TransportError", "", <<>>, FALSE, "")
  ELSE IF ~ResponseOk(response)
       THEN IF isV2Error(response.body)
            THEN handleV2Error(response.body.error, response.status)
            ELSE handleNonV2Error(response.status)
       ELSE LET n == totalCount(contentRange, response.body)
                out == parseResponse(response.body)
            IN  IF out.threw THEN out ELSE Returned(Page(out.value, n))

\* The Content-Range headers a paginated endpoint is seen to send: none,
\* "10-19/45", "0-0/1", "10-19/*" (count unknown), "*/45", "items/7" and "45".
ContentRanges ==
  { <<>>,
    <<"1", "0", "-", "1", "9", "/", "4", "5">>,
    <<"0", "-", "0", "/", "1">>,
    <<"1", "0", "-", "1", "9", "/", "*">>,
    <<"*", "/", "4", "5">>,
    <<"i", "t", "e", "m", "s", "/", "7">>,
    <<"4", "5">> }

\* The responses of a read endpoint: bare arrays, or a failure.
PageResponses ==
  { Response(s, ArrayBody(n)) : s \in {200, 206}, n \in 0..2 }
  \cup { Response(200, NestedError("PGRST301", <<"Session expired">>)),
         Response(401, NullBody), Response(500, ArrayBody(1)), NetworkFailure }

\* The record of a paginated fetch in flight.
NoResult == Returned(Undefined)

\* A page calls apiClient.getPaginated(endpoint, {page, pageSize}): the request
\* is sent with the range headers.
GetPaginated ==
  /\ ops < MaxOps
  /\ ops' = ops + 1
  /\ \A i \in DOMAIN probe : probe[i].settled
  /\ \E page \in 1..MaxPage, pageSize \in PageSizes :
       probe' = <<[fn |-> "getPaginated", page |-> page, pageSize |-> pageSize,
                   headers |-> RangeHeaders(page, pageSize), settled |-> FALSE,
                   response |-> NetworkFailure, contentRange |-> <<>>,
                   result |-> NoResult]>>
  /\ Quiet
  /\ event' = "none"
  /\ UNCHANGED <<now, tokenVars, flagVars, procVars, lastData>>

\* Its response arrives.
PaginatedResponse ==
  /\ probe # <<>>
  /\ ~probe[1].settled
  /\ \E response \in PageResponses, contentRange \in ContentRanges :
       LET out == getPaginated(response, contentRange)
       IN  /\ probe' = <<[probe[1] EXCEPT !.settled = TRUE, !.response = response,
                                           !.contentRange = contentRange, !.result = out]>>
           /\ Commit(AfterRequest(out))
  /\ event' = "page"
  /\ UNCHANGED <<now, tokenVars, flagVars, procVars, ops, lastData>>

NextPaginated ==
  \/ InitAuthStart \/ InitRefreshOk \/ InitRefreshFail \/ InitMeOk \/ InitMeFail
  \/ GetPaginated \/ PaginatedResponse

SpecPaginated == Init /\ [][NextPaginated]_vars

\* ------------------------------------------------------------ query client
\* The retry option of the QueryClient's queries: error is what the query
\* function threw (an ApiError or the TypeError of fetch, both instances of
\* Error); error.message === 'invalid_login' compares the whole text.
retry(failureCount, error) ==
  IF error.threw /\ error.message = <<"invalid_login">> THEN FALSE
  ELSE failureCount < 3

\* What a query's request may get.
QueryResponses ==
  { Response(200, SuccessBody),
    Response(401, NestedError("PGRST301", <<"ERROR: ", "JWT expired">>)),
    Response(200, NestedError("P0001", <<"invalid_login">>)),
    Response(401, NestedError("PGRST301", <<"invalid_login">>)),
    Response(409, NestedError("23505", <<"Session expired">>)),
    Response(401, NullBody), Response(500, NullBody), NetworkFailure }

\* A page mounts a useQuery: the query function sends its request.
QueryFetch ==
  /\ probe = <<>>
  /\ ops < MaxOps
  /\ ops' = ops + 1
  /\ probe' = <<[fn |-> "query", status |-> "fetching", failureCount |-> 0,
                  asked |-> 0, error |-> NoResult, retried |-> FALSE]>>
  /\ Quiet
  /\ event' = "none"
  /\ UNCHANGED <<now, tokenVars, flagVars, procVars, lastData>>

\* The response arrives.  When the query function throws, the retryer asks
\* retry(failureCount, error) and, on true, counts the failure and runs the
\* query function again.
QueryResponse ==
  /\ probe # <<>>
  /\ probe[1].fn = "query"
  /\ probe[1].status = "fetching"
  /\ \E response \in QueryResponses :
       LET out == request(response)
           again == retry(probe[1].failureCount, out)
       IN  /\ Commit(AfterRequest(out))
           /\ probe' =
                IF ~out.threw
                THEN <<[probe[1] EXCEPT !.status = "success", !.error = out,
                                        !.retried = FALSE]>>
                ELSE <<[probe[1] EXCEPT
                          !.status = IF again THEN "fetching" ELSE "error",
                          !.asked = probe[1].failureCount,
                          !.failureCount = IF again THEN @ + 1 ELSE @,
                          !.error = out,
                          !.retried = again]>>
  /\ event' = "query"
  /\ UNCHANGED <<now, tokenVars, flagVars, procVars, ops, lastData>>

NextQuery ==
  \/ InitAuthStart \/ InitRefreshOk \/ InitRefreshFail \/ InitMeOk \/ InitMeFail
  \/ QueryFetch \/ QueryResponse

SpecQuery == Init /\ [][NextQuery]_vars

\* ------------------------------------------------ the token store, called directly
\* The expiry instants an item may name: at the clock's origin, one ms after
\* it, inside the refresh window, on its edge, one ms beyond it and well
\* beyond it.
ExpiryTimes ==
  {0, 1, TimeStep, TOKEN_REFRESH_THRESHOLD_MS, TOKEN_REFRESH_THRESHOLD_MS + 1,
   TOKEN_REFRESH_THRESHOLD_MS + TimeStep}

ExpiryItems == {NoExpiry, BadExpiry} \cup { Iso(t) : t \in ExpiryTimes }

\* localStorage as a caller of the token store's readers may find it.
ReaderStores == { Full("tokA", e, re) : e \in ExpiryItems, re \in {NoExpiry, BadExpiry, Iso(TimeStep)} }

InitTokenStore ==
  /\ storage \in ReaderStores
  /\ PageLoad

\* What a reader returned: a boolean or a Date (or null).
Bool(b) == [bool |-> b, date |-> NullDate]

Date(d) == [bool |-> FALSE, date |-> d]

\* The record of a call: the function, what it found and what it returned.
Called(fn, result) == <<[fn |-> fn, st |-> storage, t |-> now, result |-> result]>>

\* A reader returns: nothing of the application changes.
Idle ==
  /\ Quiet
  /\ event' = "none"
  /\ UNCHANGED <<now, tokenVars, flagVars, procVars, ops, lastData>>

GetExpiresAt ==
  /\ probe' = Called("getExpiresAt", Date(getExpiresAt(storage)))
  /\ Idle

GetRefreshExpiresAt ==
  /\ probe' = Called("getRefreshExpiresAt", Date(getRefreshExpiresAt(storage)))
  /\ Idle

IsTokenExpired ==
  /\ probe' = Called("isTokenExpired", Bool(isTokenExpired(storage, now)))
  /\ Idle

IsRefreshTokenExpired ==
  /\ probe' = Called("isRefreshTokenExpired", Bool(isRefreshTokenExpired(storage, now)))
  /\ Idle

ShouldRefreshToken ==
  /\ probe' = Called("shouldRefreshToken", Bool(shouldRefreshToken(storage, now)))
  /\ Idle

NextTokenStore ==
  \/ Tick
  \/ GetExpiresAt \/ GetRefreshExpiresAt
  \/ IsTokenExpired \/ IsRefreshTokenExpired \/ ShouldRefreshToken

SpecTokenStore == InitTokenStore /\ [][NextTokenStore]_vars

\* ------------------------------------------------------- single-flight refresh
\* What a call resolved to: its own value, or what its promise did.
Resolved(c) == IF c.gen = 0 THEN c.val ELSE promises[c.gen]

Settled(b) == b \in {"true", "false"}

\* The calls made while the refresh RPC of promise g was in flight.
Callers(g) == { i \in DOMAIN calls : calls[i].during = g }

\* The access token in storage is expired or inside the refresh window.
Due(st, t) == shouldRefreshToken(st, t) \/ isTokenExpired(st, t)

LastCall == calls[Len(calls)]

\* C1 as stated: when two or more calls of ensureValidToken() were made while
\* the refresh RPC of an earlier call was in flight, none of them sent a
\* request of its own and, once all are settled, each resolved to the boolean
\* the initiator resolved to.
C1_AllCallersAgree ==
  \A g \in DOMAIN promises :
    (Cardinality(Callers(g)) >= 2 /\ Settled(promises[g])
       /\ \A i \in Callers(g) : Settled(Resolved(calls[i])))
    => \A i \in Callers(g) : calls[i].gen \in {0, g} /\ Resolved(calls[i]) = promises[g]

\* C1 amended: right after a call of ensureValidToken() made while the refresh
\* RPC of an earlier call is in flight, if storage holds an access token that
\* is expired or inside the refresh window, the call returned the initiator's
\* promise (so it resolves to the initiator's boolean) and that one refresh
\* request is still the only one ensureValidToken() has outstanding.
C1_DueCallersShare ==
  (event = "ensure_called" /\ LastCall.during # 0
     /\ getAccessToken(storage) # NoToken /\ Due(storage, now))
  => /\ LastCall.gen = LastCall.during
     /\ refreshPromise = LastCall.during
     /\ ensureRpcs = {LastCall.during}

\* Two callers joined the refresh in flight, the second one just now.
C1_Witness ==
  /\ event = "ensure_called"
  /\ getAccessToken(storage) # NoToken /\ Due(storage, now)
  /\ \E g \in DOMAIN promises :
       /\ ensureRpcs = {g}
       /\ Cardinality({ i \in Callers(g) : calls[i].gen = g }) >= 2

\* The refresh RPCs outstanding in the whole application: those
\* ensureValidToken() started, the one of initAuth(), the panel's automatic
\* one and its manual ones.
RefreshRpcs ==
  Cardinality(ensureRpcs) + (IF initPc = "refresh" THEN 1 ELSE 0)
    + (IF panelPc = "refresh" THEN 1 ELSE 0) + manual

\* C2 as stated: in every reachable state at most one refresh RPC is
\* outstanding in the whole application.
C2_OneRefreshProcessWide == RefreshRpcs <= 1

\* C2 amended: in every reachable state at most one refresh RPC started
\* through ensureValidToken() is outstanding, and it is the one of the promise
\* the module holds.
C2_OneRefreshPerEnsure ==
  /\ Cardinality(ensureRpcs) <= 1
  /\ ensureRpcs # {} => (isRefreshing /\ ensureRpcs = {refreshPromise})

\* A refresh of ensureValidToken() is outstanding, a later caller has come
\* while it was, and another trigger has its own refresh outstanding.
C2_Witness ==
  /\ Cardinality(ensureRpcs) = 1
  /\ \E i \in DOMAIN calls : calls[i].during # 0 /\ calls[i].during \in ensureRpcs
  /\ RefreshRpcs >= 2

\* ------------------------------------------------------------ the teardown
\* C3 as stated: when the background me() of login() fails, the step leaves
\* the tokens, the session built from the login response and the location as
\* they were: no teardown, no navigation to the login screen.
C3_BackgroundMeFailureIgnored ==
  [][event' = "login_me_failed"
       => /\ storage' = storage
          /\ user' = user
          /\ href' = href
          /\ redirects' = redirects]_vars

\* The steps in which a failed request does nothing but signal.
PureSignalEvents == {"data", "switch_thrown", "login_me_failed", "manual_failed"}

\* C4: handleAuthError tears the session down (token store cleared, user null,
\* navigation to the login screen) only with neither guard set and only while
\* the latch is unset, which the teardown sets: so it happens at most once, on
\* the first unguarded signal; a later unguarded signal finds the latch set
\* and leaves location, tokens and user as they are.
C4_TeardownOnce ==
  [][/\ sig' \in {"torn", "latched"} => (~isLoginInProgress /\ ~suppressAuthRedirect)
     /\ sig' = "torn"
          => /\ ~hasHandledAuthError /\ hasHandledAuthError'
             /\ storage' = EmptyStore /\ user' = NoUser /\ href' = LoginHref
             /\ redirects' = redirects + 1
     /\ sig' = "latched"
          => /\ hasHandledAuthError /\ hasHandledAuthError'
             /\ href' = href /\ redirects' = redirects
             /\ event' \in PureSignalEvents => (storage' = storage /\ user' = user)
     /\ sig' \in {"none", "suppressed"} => (href' = href /\ redirects' = redirects)
     /\ redirects' <= 1]_vars

\* A signal arrived with no guard set after the teardown had been done.
C4_Witness ==
  /\ sig = "latched"
  /\ event \in PureSignalEvents
  /\ redirects = 1
  /\ href = LoginHref

\* C6 as stated: when bootstrap validation fails (tokens unusable, the refresh
\* RPC fails, or me() fails), initAuth() ends with user null and the token
\* store cleared, and the teardown-and-redirect is not performed.
C6_BootstrapFailsQuietly ==
  event \in {"init_invalid", "init_refresh_failed", "init_me_failed"}
  => /\ user = NoUser
     /\ storage = EmptyStore
     /\ initPc = "done"
     /\ sig # "torn"

\* C7: while login() awaits the login RPC the guard is set; when the RPC
\* fails, with an auth error or any other, the step neither tears down nor
\* redirects, writes no token key, leaves user as it was, and the guard is
\* false once login() has settled, by failure or by success.
C7_LoginFailureSuppressed ==
  [][/\ loginPc = "rpc" => isLoginInProgress
     /\ event' = "login_thrown"
          => /\ sig' \in {"none", "suppressed"}
             /\ storage' = storage
             /\ user' = user
             /\ href' = href /\ redirects' = redirects
             /\ hasHandledAuthError' = hasHandledAuthError
             /\ ~isLoginInProgress'
     /\ event' = "login_resolved" => ~isLoginInProgress']_vars

\* login() failed with an auth error while a session was live: it is still live.
C7_Witness ==
  /\ event = "login_thrown"
  /\ sig = "suppressed"
  /\ ~isLoginInProgress
  /\ getAccessToken(storage) # NoToken
  /\ user # NoUser
  /\ href = AppHref

\* C8: right after logout() has settled, whether its RPC succeeded, failed or
\* was never sent, the five token keys are gone, user is null and
\* needsHoldingSelect is false.
C8_LogoutAlwaysClears ==
  event = "logout"
  => /\ storage = EmptyStore
     /\ user = NoUser
     /\ ~needsHoldingSelect

\* logout() has settled although its RPC failed with an auth error.
C8_Witness ==
  /\ event = "logout"
  /\ sig \in {"torn", "latched", "suppressed"}
  /\ storage = EmptyStore

\* The refresh token's expiry has passed or cannot be told: the item is
\* missing or is no date.
RefreshExpiryPassedOrUnknown(st, t) ==
  LET expiresAt == getRefreshExpiresAt(st)
  IN  expiresAt.k # "date" \/ t >= expiresAt.t

\* C9 as stated: a call of ensureValidToken() that finds an access token and
\* a refresh token whose expiry has passed or is unknown clears all tokens,
\* sends no refresh RPC and resolves to false, whatever the access token's
\* expiry.
C9_RefreshTokenAuthoritative ==
  [][(event' = "ensure_called" /\ calls' # calls
        /\ getAccessToken(storage) # NoToken
        /\ RefreshExpiryPassedOrUnknown(storage, now))
     => LET c == calls'[Len(calls')]
        IN  /\ storage' = EmptyStore
            /\ ensureRpcs' = ensureRpcs
            /\ (IF c.gen = 0 THEN c.val ELSE promises'[c.gen]) = "false"]_vars

\* C10: when the refresh RPC of validateAndRefresh() fails, for whatever
\* reason, the five token keys are gone and the call resolves to false: the
\* promise ensureValidToken() handed out becomes false, initAuth() takes its
\* "validation failed" branch.
C10_RefreshFailureResolvesFalse ==
  [][/\ event' = "ensure_refresh_failed"
          => /\ storage' = EmptyStore
             /\ ensureRpcs' # ensureRpcs
             /\ \A g \in ensureRpcs \ ensureRpcs' : promises'[g] = "false"
     /\ event' = "init_refresh_failed"
          => /\ storage' = EmptyStore
             /\ initPc' = "done"]_vars

\* The refresh of ensureValidToken() failed for a reason that is no auth error.
C10_Witness ==
  /\ event = "ensure_refresh_failed"
  /\ sig = "none"
  /\ storage = EmptyStore
  /\ \E g \in DOMAIN promises : promises[g] = "false" /\ Callers(g) # {}

\* ---------------------------------------------------------------- transport
\* An HTTP 200 response whose body is {ok:false, code:"auth.session_expired", message}.
FlatSessionExpired(response) ==
  /\ response.net = "ok"
  /\ response.status = 200
  /\ response.body.typ = "object"
  /\ response.body.keys = {"ok", "code", "message"}
  /\ response.body.ok = "false"
  /\ response.body.code = "auth.session_expired"

\* C5 as stated: the request that gets HTTP 200 with the body {ok:false,
\* code:"auth.session_expired", message} throws an error with isAuthError true
\* and calls the registered auth-error callback once, under the request path
\* of ApiClient or, failing that, under the flat-envelope parser; and there is
\* never a second redirect.
C5_FlatSessionExpiredIsAuthError ==
  /\ redirects <= 1
  /\ \A i \in DOMAIN lastData :
       FlatSessionExpired(lastData[i].response)
       => \/ /\ lastData[i].outcome.threw
             /\ lastData[i].outcome.isAuthError
             /\ lastData[i].outcome.fired = 1
          \/ /\ lastData[i].flat.threw
             /\ lastData[i].flat.isAuthError
             /\ lastData[i].flat.fired = 1

\* -------------------------------------------------------------- token store
\* The stored text of an expiry is a date, and which.
Parsable(item) == item.k = "iso"

\* C11 as stated: shouldRefreshToken() returns true exactly when the stored
\* access-token expiry is known and 0 < expiresAt - now <= 60000 ms; it is
\* false for a token that has expired and for one more than 60 s from expiry.
C11_ShouldRefreshInsideWindowOnly ==
  \A i \in DOMAIN probe :
    probe[i].fn = "shouldRefreshToken"
    => (probe[i].result.bool
          <=> /\ Parsable(probe[i].st.expires_at)
              /\ 0 < probe[i].st.expires_at.t - probe[i].t
              /\ probe[i].st.expires_at.t - probe[i].t <= 60000)

\* C12 as stated: isTokenExpired() and isRefreshTokenExpired() return true
\* whenever the stored expiry is missing or is no date or now >= expiry, and
\* false only when a date strictly after now is stored; getExpiresAt() and
\* getRefreshExpiresAt() return null for a missing and for an unparsable item.
C12_ExpiryChecksFailClosed ==
  \A i \in DOMAIN probe :
    LET c == probe[i]
        FailClosed(item) == ~Parsable(item) \/ c.t >= item.t
    IN  /\ c.fn = "isTokenExpired" => (c.result.bool <=> FailClosed(c.st.expires_at))
        /\ c.fn = "isRefreshTokenExpired" => (c.result.bool <=> FailClosed(c.st.refresh_expires_at))
        /\ c.fn = "getExpiresAt" => (c.result.date = NullDate <=> ~Parsable(c.st.expires_at))
        /\ c.fn = "getRefreshExpiresAt"
             => (c.result.date = NullDate <=> ~Parsable(c.st.refresh_expires_at))

\* ------------------------------------------------------------------- login
\* C13: in the step in which login() resolves, the token store holds exactly
\* the pair the login RPC returned (user_id as text), getAccessToken() gives
\* the access token of that pair, user is the non-null user built from the
\* response, so isAuthenticated is true, and needsHoldingSelect is true
\* exactly when the response's holding_id is null.
C13_LoginStoresPairAndSession ==
  [][event' = "login_resolved"
       => \E pair \in TokenPairs(now) :
            /\ storage'.access_token = pair.access_token
            /\ storage'.refresh_token = pair.refresh_token
            /\ storage'.expires_at = pair.expires_at
            /\ storage'.refresh_expires_at = pair.refresh_expires_at
            /\ storage'.user_id = ToString(pair.user_id)
            /\ getAccessToken(storage') = pair.access_token
            /\ user' # NoUser
            /\ user'.kind = "login"
            /\ needsHoldingSelect' <=> (user'.holding = "null")]_vars

\* login() has resolved for a user without a holding, over an older session.
C13_Witness ==
  /\ event = "login_resolved"
  /\ getAccessToken(storage) = "tokB"
  /\ getRefreshToken(storage) = "rtB"
  /\ user = ProvisionalUser("null")
  /\ needsHoldingSelect
  /\ hasHandledAuthError

\* A 2xx response whose body is {ok:true, data:X}, with or without meta.
SuccessEnvelope(response) ==
  /\ response.net = "ok"
  /\ ResponseOk(response)
  /\ response.body.typ = "object"
  /\ response.body.ok = "true"
  /\ {"ok", "data"} \subseteq response.body.keys
  /\ response.body.keys \subseteq {"ok", "data", "meta"}

\* C14: a request that gets a 2xx response with the body {ok:true, data:X},
\* with or without meta, returns X as it is, whatever X is: null, a number,
\* an array, an object, or an object that is an envelope itself; the
\* flat-envelope parser returns the same.
C14_SuccessEnvelopeUnwrapped ==
  \A i \in DOMAIN lastData :
    SuccessEnvelope(lastData[i].response)
    => /\ ~lastData[i].outcome.threw
       /\ lastData[i].outcome.value = lastData[i].response.body.data
       /\ lastData[i].outcome.fired = 0
       /\ ~lastData[i].flat.threw
       /\ lastData[i].flat.value = lastData[i].response.body.data

\* A request returned the payload of {ok:true, data:X, meta} where X is an
\* error envelope itself.
C14_Witness ==
  \E i \in DOMAIN lastData :
    /\ SuccessEnvelope(lastData[i].response)
    /\ "meta" \in lastData[i].response.body.keys
    /\ lastData[i].response.body.data = NestedError("PGRST301", <<"Session expired">>)
    /\ lastData[i].outcome.value = NestedError("PGRST301", <<"Session expired">>)

\* A response whose body is a bare array.
BareArray(response) == response.net = "ok" /\ response.body.typ = "array"

\* What the claim has a normalizer return for a 2xx bare array.
OneElementUnwrapped(body) == IF body.len = 1 THEN body.items[1] ELSE body

\* C15 as stated: for a 2xx response whose body is a bare array each
\* normalizer of the code (the request path of ApiClient, the flat-envelope
\* parser, the problem-details parser) returns the single element when the
\* array has one element and the array itself when it has none or two and
\* more; on an error status the request throws, whatever the array holds.
C15_OneElementArrayUnwrapped ==
  \A i \in DOMAIN lastData :
    LET r == lastData[i]
    IN  BareArray(r.response)
        => IF ResponseOk(r.response)
           THEN /\ ~r.outcome.threw
                /\ r.outcome.value = OneElementUnwrapped(r.response.body)
                /\ ~r.flat.threw
                /\ r.flat.value = OneElementUnwrapped(r.response.body)
                /\ ~r.problem.threw
                /\ r.problem.value = OneElementUnwrapped(r.response.body)
           ELSE r.outcome.threw /\ r.problem.threw

\* The thrown error's message holds one of the listed substrings.
ListedSubstring(message) ==
  \E i \in DOMAIN message :
    message[i] \in {"AUTH_SESSION_REVOKED", "AUTH_SESSION_EXPIRED", "AUTH_INVALID_REFRESH",
                    "JWT expired"}

\* C16: the isAuthError flag of every ApiError a request throws is true
\* exactly when its code is PGRST301, PGRST302, PGRST303 or PGRST116, or the
\* HTTP status is 401, or its message holds a listed substring: so it is true
\* for a listed code whatever the message, for 401 whatever the code, and
\* false on any other status with an unlisted code and no listed substring.
C16_AuthFlagIsCodeOrStatusOrMessage ==
  \A i \in DOMAIN lastData :
    LET r == lastData[i]
    IN  (r.outcome.threw /\ r.outcome.kind = "ApiError")
        => (r.outcome.isAuthError
              <=> \/ r.outcome.code \in {"PGRST301", "PGRST302", "PGRST303", "PGRST116"}
                  \/ r.response.status = 401
                  \/ ListedSubstring(r.outcome.message))

\* An error with an unlisted code on a 409 was flagged for its message alone.
C16_Witness ==
  \E i \in DOMAIN lastData :
    /\ lastData[i].response.status = 409
    /\ lastData[i].outcome.threw
    /\ lastData[i].outcome.code = "23505"
    /\ ListedSubstring(lastData[i].outcome.message)
    /\ lastData[i].outcome.isAuthError

\* The body is the error envelope {ok:false, error:{...}}.
NestedErrorShape(body) ==
  body.typ = "object" /\ body.ok = "false" /\ "error" \in body.keys /\ body.error.typ = "object"

C18_RangeHeaderOfPage ==
  \A i \in DOMAIN probe :
    probe[i].fn = "getPaginated"
    => LET p == probe[i].page
           sz == probe[i].pageSize
       IN  /\ p >= 1 /\ sz >= 1
           /\ probe[i].headers["Range"]
                = ToString((p - 1) * sz) \o "-" \o ToString((p - 1) * sz + sz - 1)
           /\ probe[i].headers["Prefer"] = "count=exact"
           /\ (p = 2 /\ sz = 10) => probe[i].headers["Range"] = "10-19"

\* Page 2 of size 10 was asked for and the request went out with 10-19.
C18_Witness ==
  /\ probe # <<>>
  /\ probe[1].fn = "getPaginated"
  /\ probe[1].page = 2 /\ probe[1].pageSize = 10
  /\ probe[1].headers["Range"] = "10-19"
  /\ probe[1].settled /\ ~probe[1].result.threw

\* A text made of one decimal digit or more.
AllDigits(text) == text # <<>> /\ \A i \in DOMAIN text : IsDigit(text[i])

\* The header has the form "start-end/total".
RangeForm(text) ==
  \E i, j \in DOMAIN text :
    /\ i < j
    /\ text[i] = "-" /\ text[j] = "/"
    /\ AllDigits(SubSeq(text, 1, i - 1))
    /\ AllDigits(SubSeq(text, i + 1, j - 1))
    /\ AllDigits(SubSeq(text, j + 1, Len(text)))

\* The total of a header of that form.
RangeTotal(text) ==
  LET j == CHOOSE j \in DOMAIN text : text[j] = "/"
  IN  parseInt(SubSeq(text, j + 1, Len(text)))

\* C19 as stated: on a successful paginated fetch totalCount is the total of
\* the Content-Range header when that has the form "start-end/total", and
\* is the length of the response body whenever the header is absent or is
\* not of that form.
C19_TotalFromHeaderElseBodyLength ==
  \A i \in DOMAIN probe :
    (probe[i].fn = "getPaginated" /\ probe[i].settled /\ ~probe[i].result.threw)
    => probe[i].result.value.totalCount
         = IF RangeForm(probe[i].contentRange) THEN RangeTotal(probe[i].contentRange)
           ELSE probe[i].response.body.len

\* ------------------------------------------------------------ switchHolding
\* C20: the steps of a successful switchHolding(id) write the access token
\* and its expiry and nothing else of the token store: when the switch RPC
\* returns, access_token and expires_at become those of the response while
\* refresh_token, refresh_expires_at and user_id stay as they were, and the
\* identity fetch that completes the call writes no key at all.
C20_SwitchWritesAccessTokenOnly ==
  [][/\ event' = "switch_stored"
          => /\ \E r \in SwitchResponses(now) :
                  /\ storage'.access_token = r.access_token
                  /\ storage'.expires_at = r.expires_at
             /\ storage'.refresh_token = storage.refresh_token
             /\ storage'.refresh_expires_at = storage.refresh_expires_at
             /\ storage'.user_id = storage.user_id
     /\ event' = "switch_resolved" => storage' = storage]_vars

\* switchHolding() has stored the holding's access token next to the refresh
\* token of an earlier refresh.
C20_Witness ==
  /\ event = "switch_stored"
  /\ storage.access_token = "tokH"
  /\ storage.refresh_token = "rtB"
  /\ storage.refresh_expires_at # NoExpiry
  /\ storage.user_id = "7"

\* ------------------------------------------------------------- query client
\* C21 as stated: a query whose query function threw an ApiError with
\* isAuthError true is not run again: the retry decision is false for it at
\* every failure count.
C21_AuthErrorNotRetried ==
  \A i \in DOMAIN probe :
    (probe[i].fn = "query" /\ probe[i].error.threw /\ probe[i].error.isAuthError)
    => ~probe[i].retried

\* ----------------------------------------------- failed requests, every shape
\* The code and the message of an error body, wherever the shape keeps them.
BodyCode(body) == IF NestedErrorShape(body) THEN body.error.code ELSE body.code

BodyMessage(body) == IF NestedErrorShape(body) THEN body.error.message ELSE body.message

\* A failed request: an answer with a non-2xx status, or an error envelope
\* (ok false, nested or flat) in band on a 2xx status.
FailedRequest(response) ==
  /\ response.net = "ok"
  /\ \/ response.status < 200
     \/ response.status > 299
     \/ response.body.typ = "object" /\ response.body.ok = "false"

\* C22 as stated: every failed request throws an error whose isAuthError is
\* the classifier's verdict on the body's code and message or an HTTP status
\* of 401, whatever the shape of the body, and the registered callback was
\* called once when that flag is true and not at all when it is false.
C22_EveryShapeClassified ==
  \A i \in DOMAIN lastData :
    LET r == lastData[i]
        listed == \/ BodyCode(r.response.body) \in
                        {"PGRST301", "PGRST302", "PGRST303", "PGRST116"}
                  \/ ListedSubstring(BodyMessage(r.response.body))
                  \/ r.response.status = 401
    IN  FailedRequest(r.response)
        => /\ r.outcome.threw
           /\ r.outcome.isAuthError <=> listed
           /\ r.outcome.fired = IF r.outcome.isAuthError THEN 1 ELSE 0

\* ------------------------------------------------ ensureValidToken, at rest
\* This step is a call of ensureValidToken().
EnsureCalled == Len(calls') = Len(calls) + 1

\* The call returned val at once, and left the network and the storage alone.
AnsweredAtRest(val) ==
  /\ calls'[Len(calls')].gen = 0
  /\ calls'[Len(calls')].val = val
  /\ ensureRpcs' = ensureRpcs
  /\ promises' = promises
  /\ storage' = storage

\* No usable access token is stored: the item is absent or a sentinel string.
NoAccessTokenStored == storage.access_token \in {NoItem, "", "undefined", "null"}

\* The access token expires more than 60 s from now and the refresh token
\* has not expired.
FarFromExpiry ==
  /\ ~NoAccessTokenStored
  /\ storage.expires_at.k = "iso"
  /\ storage.expires_at.t - now > 60000
  /\ storage.refresh_expires_at.k = "iso"
  /\ storage.refresh_expires_at.t > now

\* C23: a call of ensureValidToken() sends no request and writes nothing to
\* storage when no access token is stored (the sentinel strings included),
\* and then returns false, and when the access token is more than 60 s from
\* expiry with an unexpired refresh token, and then returns true.
C23_NoTokenOrFreshTokenAtRest ==
  [][ EnsureCalled =>
        /\ NoAccessTokenStored => AnsweredAtRest("false")
        /\ FarFromExpiry => AnsweredAtRest("true") ]_vars

\* Both cases were called in one run: one call answered false at once, and
\* the last one answered true at once with a fresh token stored.
C23_Witness ==
  /\ event = "ensure_called"
  /\ FarFromExpiry
  /\ calls # <<>>
  /\ calls[Len(calls)].gen = 0
  /\ calls[Len(calls)].val = "true"
  /\ \E i \in DOMAIN calls : calls[i].gen = 0 /\ calls[i].val = "false"

\* ------------------------------------------------- problem normalizer routes
\* The body is an object with a code and a message of its own.
HasCodeAndMessage(body) ==
  body.typ = "object" /\ "code" \in body.keys /\ "message" \in body.keys

\* The code matches the domain-error pattern: it contains a '.'.
DomainPattern(c) == c = "auth.session_expired"

C25_HoldingSelectOnlyWithSession == needsHoldingSelect => user # NoUser

\* The persisted keys that are present in the store.
KeysPresent(st) ==
  {k \in {"access_token", "refresh_token", "user_id"} : st[k] # NoItem}
  \cup {k \in {"expires_at", "refresh_expires_at"} : st[k].k # "absent"}

AllOrNone(st) == Cardinality(KeysPresent(st)) \in {0, 5}

\* C26 as stated: no operation (login, refresh, switchHolding, logout, the
\* auth-error teardown), in any interleaving, takes a token store that holds
\* all five persisted keys or none of them to one that holds only some.
C26_AllFiveKeysOrNone == [][AllOrNone(storage) => AllOrNone(storage')]_vars

\* C27 as stated: once bootstrap has finished, a live session (user is not
\* null) implies that an access token is stored: no path clears the token
\* store and leaves the session in place.
C27_SessionImpliesStoredToken ==
  (initPc = "done" /\ user # NoUser) => getAccessToken(storage) # NoToken

\* C28 as stated: once logout() has settled, the token store stays empty and
\* user stays null until a new login() is started: what was in flight when
\* logout ran (a refresh, a switchHolding, a background whoami) writes no
\* token and no session when it completes afterwards.
LoggedOutState == storage = EmptyStore /\ user = NoUser

\* Stated of the step that follows the settling of logout(): whatever
\* completes then was in flight when logout ran.
C28_LogoutIsFinal ==
  [][ (event = "logout" /\ LoggedOutState /\ loginPc = "idle" /\ loginPc' = "idle")
      => LoggedOutState' ]_vars

\* ------------------------------------------------------- suppressed signals
\* C29: a signal is suppressed only while the login guard or the bootstrap
\* suppression flag is set, and it leaves the latch, the location and the
\* redirect count as they were (and tokens and user, in the steps that do
\* nothing but signal); the latch is set by the teardown alone, so a signal
\* that arrives with no guard set and the latch unset performs the whole
\* teardown and redirect, however many signals were suppressed before.
C29_SuppressedSignalKeepsLatch ==
  [][/\ sig' = "suppressed"
          => /\ isLoginInProgress \/ suppressAuthRedirect
             /\ hasHandledAuthError' = hasHandledAuthError
             /\ href' = href /\ redirects' = redirects
             /\ event' \in PureSignalEvents \cup {"login_thrown"}
                  => (storage' = storage /\ user' = user)
     /\ hasHandledAuthError' <=> redirects' = 1
     /\ (sig' \in {"torn", "latched"} /\ ~hasHandledAuthError)
          => /\ sig' = "torn"
             /\ hasHandledAuthError'
             /\ storage' = EmptyStore /\ user' = NoUser
             /\ href' = LoginHref /\ redirects' = 1]_vars

\* A data request failed with an auth error while login() was in flight over
\* a live session: the signal was suppressed and the session is as it was.
C29_Witness ==
  /\ sig = "suppressed"
  /\ event = "data"
  /\ isLoginInProgress
  /\ ~hasHandledAuthError
  /\ user # NoUser
  /\ getAccessToken(storage) # NoToken
  /\ href = AppHref

\* ------------------------------------------------------ bootstrap terminates
\* C30: when every request is answered, bootstrap ends on every path:
\* isLoading becomes false, it never becomes true again, and once bootstrap
\* has finished isLoading and the bootstrap suppression flag are false.
C30_BootstrapTerminates ==
  /\ <>(initPc = "done")
  /\ <>[](~isLoading)
  /\ [][~isLoading => ~isLoading']_vars
  /\ [](initPc = "done" => (~isLoading /\ ~suppressAuthRedirect))

\* Bootstrap ended by the path on which login() was already in progress.
C30_Witness ==
  /\ initPc = "done"
  /\ ~isLoading
  /\ ~suppressAuthRedirect
  /\ isLoginInProgress
  /\ user = NoUser

====
